---- MODULE Spec2Model ----
(***************************************************************************)
(* A model of the `machine` crate (src/src/lib.rs): the generic holder     *)
(* Machine<StateType, Event>, its operations new and dispatch, the error   *)
(* type MachineError with its Display and Error implementations, and the   *)
(* State trait, together with the turnstile implementation of the crate    *)
(* documentation.                                                          *)
(*                                                                         *)
(* Two machines are created from the same initial state; a caller          *)
(* dispatches events of its choice to the first and the same events, in    *)
(* the same order, to the second, and keeps, per machine, a log of what it *)
(* observed around each call (the public field `state` before and after,   *)
(* the event, the returned Result).  The implementation of State::apply is *)
(* a parameter of the crate: it ranges over every function of the          *)
(* turnstile's types, the documented turnstile being one of them.          *)
(***************************************************************************)
EXTENDS Integers, Sequences, FiniteSets, TLC

\* Number of dispatch calls made on one machine, for an arbitrary implementation
\* of State::apply and for the documented turnstile.
MaxDispatch == 2
MaxTurnstileDispatch == 5

\* The count of apply invocations within one call of dispatch is kept up to this.
MaxApplied == 2

\* enum TurnstileState / enum TurnstileEvent
TurnstileState == {"Locked", "Unlocked"}
TurnstileEvent == {"PaymentReceived", "PersonEntering"}

\* The two Machine values the caller owns.
Machines == {1, 2}

\* MachineError::InvalidEvent(State, Event)
InvalidEvent(s, e) == [variant |-> "InvalidEvent", state |-> s, event |-> e]
MachineError == {InvalidEvent(s, e) : s \in TurnstileState, e \in TurnstileEvent}

\* Result<T, MachineError<..>>: Ok(v) and Err(err).  Ok(()) is Ok(Unit).
Unit == "()"
NoError == [variant |-> "-", state |-> "-", event |-> "-"]
Ok(v) == [ok |-> TRUE, value |-> v, error |-> NoError]
Err(err) == [ok |-> FALSE, value |-> Unit, error |-> err]

\* Result<Self, MachineError<Self, Event>>, the return type of State::apply.
ApplyResult == {Ok(s) : s \in TurnstileState} \cup {Err(err) : err \in MachineError}

\* Mutation of the turnstile: a locked turnstile lets a person enter.
TurnstileApplyOpen(self, event) ==
    CASE self = "Locked" -> Ok(IF event = "PaymentReceived" THEN "Unlocked" ELSE "Locked")
      [] self = "Unlocked" ->
           IF event = "PersonEntering" THEN Ok("Locked")
           ELSE Err(InvalidEvent(self, event))

\* Mutation of the turnstile: the second arm's error names the first arm's state.
TurnstileApplyMislabel(self, event) ==
    CASE self = "Locked" ->
           IF event = "PaymentReceived" THEN Ok("Unlocked")
           ELSE Err(InvalidEvent("Locked", event))
      [] self = "Unlocked" ->
           IF event = "PersonEntering" THEN Ok("Locked")
           ELSE Err(InvalidEvent("Locked", event))

\* The documented implementation: impl State<TurnstileEvent> for TurnstileState.
TurnstileApply(self, event) ==
    CASE self = "Locked" ->
           IF event = "PaymentReceived" THEN Ok("Unlocked")
           ELSE Err(InvalidEvent(self, event))
      [] self = "Unlocked" ->
           IF event = "PersonEntering" THEN Ok("Locked")
           ELSE Err(InvalidEvent(self, event))

TurnstileTable == [p \in TurnstileState \X TurnstileEvent |-> TurnstileApply(p[1], p[2])]

\* Every implementation of the trait State<TurnstileEvent> for TurnstileState.
StateImpls == [TurnstileState \X TurnstileEvent -> ApplyResult] \cup {TurnstileTable}

VARIABLES
    apply_impl,   \* the implementation of State::apply in use
    initial,      \* the value passed to Machine::new
    machine,      \* machine[m]: the Machine value m
    log,          \* log[m]: what the caller observed at each dispatch on m
    display,      \* the text last written by Display::fmt
    panicked,     \* TRUE once a call has panicked
    frame         \* the call of dispatch in progress, when it is followed
                  \* statement by statement

vars == <<apply_impl, initial, machine, log, display, panicked, frame>>

\* self.state.apply(event)
apply(self, event) == apply_impl[<<self, event>>]

\* Mutation of Machine::new: the state is the type's default, not the argument.
MachineNewDefault(initial_state) == [state |-> "Locked", _event |-> "PhantomData"]

\* Machine::new
MachineNew(initial_state) == [state |-> initial_state, _event |-> "PhantomData"]

\* impl<T> From<T> for T, reached through e.into()
into(e) == InvalidEvent(e.state, e.event)

\* Mutation of Machine::dispatch: the state is taken out of the machine (leaving
\* the default) before apply runs and is not put back when apply rejects.
MachineDispatchTake(self, event) ==
    LET r == apply(self.state, event) IN
    IF r.ok
    THEN [machine |-> [self EXCEPT !.state = r.value], result |-> Ok(Unit)]
    ELSE [machine |-> [self EXCEPT !.state = "Locked"], result |-> Err(into(r.error))]

\* Mutation of Machine::dispatch: the new state is dropped instead of stored.
MachineDispatchDiscard(self, event) ==
    LET r == apply(self.state, event) IN
    IF r.ok
    THEN [machine |-> self, result |-> Ok(Unit)]
    ELSE [machine |-> self, result |-> Err(into(r.error))]

\* Mutation of Machine::dispatch: the error is rebuilt from the machine's own
\* state and the event instead of being passed on.
MachineDispatchRelabel(self, event) ==
    LET r == apply(self.state, event) IN
    IF r.ok
    THEN [machine |-> [self EXCEPT !.state = r.value], result |-> Ok(Unit)]
    ELSE [machine |-> self, result |-> Err(InvalidEvent(self.state, event))]

\* Mutation of Machine::dispatch: the state read is one shared by all machines
\* (that of the first) instead of the machine's own.
MachineDispatchShared(self, event) ==
    LET r == apply(machine[1].state, event) IN
    IF r.ok
    THEN [machine |-> [self EXCEPT !.state = r.value], result |-> Ok(Unit)]
    ELSE [machine |-> self, result |-> Err(into(r.error))]

\* Machine::dispatch: the machine afterwards and the value returned.
MachineDispatch(self, event) ==
    LET r == apply(self.state, event) IN
    IF r.ok
    THEN [machine |-> [self EXCEPT !.state = r.value], result |-> Ok(Unit)]
    ELSE [machine |-> self, result |-> Err(into(r.error))]

\* impl fmt::Display for MachineError
fmt(err) == <<"Invalid Event, ", err.event, " for State ", err.state>>

\* impl error::Error for MachineError: description is todo!(), which panics.
description(err) == [panics |-> TRUE]

\* The errors the caller holds: those returned by dispatch so far.
HeldErrors ==
    UNION {{log[m][i].result.error : i \in 1..Len(log[m])} : m \in Machines} \ {NoError}

\* No call of dispatch is in progress.
Idle ==
    [pc |-> "idle", pre |-> "-", event |-> "-", applied |-> 0,
     self |-> "-", r |-> Ok(Unit), ret |-> Ok(Unit)]

Init ==
    /\ apply_impl \in StateImpls
    /\ initial \in TurnstileState
    /\ machine = [m \in Machines |-> MachineNew(initial)]
    /\ log = [m \in Machines |-> <<>>]
    /\ display = <<>>
    /\ panicked = FALSE
    /\ frame = Idle

\* machine.dispatch(event) on machine m, with the caller's observations.
Call(m, event) ==
    /\ ~panicked
    /\ LET d == MachineDispatch(machine[m], event) IN
         /\ machine' = [machine EXCEPT ![m] = d.machine]
         /\ log' = [log EXCEPT ![m] = Append(@,
                      [pre |-> machine[m].state, event |-> event,
                       result |-> d.result, post |-> d.machine.state])]
    /\ UNCHANGED <<apply_impl, initial, display, panicked, frame>>

DispatchBound ==
    IF apply_impl = TurnstileTable THEN MaxTurnstileDispatch ELSE MaxDispatch

\* The caller dispatches an event of its choice to the first machine.
Dispatch(event) ==
    /\ Len(log[1]) < DispatchBound
    /\ Call(1, event)

\* The caller dispatches to the second machine the next event the first was given.
Replay ==
    /\ Len(log[2]) < Len(log[1])
    /\ Call(2, log[1][Len(log[2]) + 1].event)

\* format!("{err}") on an error the caller holds.
Display(err) ==
    /\ ~panicked
    /\ err \in HeldErrors
    /\ display' = fmt(err)
    /\ UNCHANGED <<apply_impl, initial, machine, log, panicked, frame>>

\* err.description() on an error the caller holds: the body is todo!().
Description(err) ==
    /\ ~panicked
    /\ err \in HeldErrors
    /\ panicked' = description(err).panics
    /\ UNCHANGED <<apply_impl, initial, machine, log, display, frame>>

Next ==
    \/ \E event \in TurnstileEvent : Dispatch(event)
    \/ Replay
    \/ \E err \in MachineError : Display(err)
    \/ \E err \in MachineError : Description(err)

Spec == Init /\ [][Next]_vars

-----------------------------------------------------------------------------
\* Machine::dispatch on the first machine, statement by statement.

\* Mutation of `?`: a rejected event is handed to apply again until accepted.
QuestionMarkRetry(r) == IF r.ok THEN "assign" ELSE "apply"

\* Mutation of `?`: the value is assigned whether apply accepted or not.
QuestionMarkIgnore(r) == "assign"

\* The `?` of dispatch: on Ok go on to the assignment, on Err return at once.
QuestionMark(r) == IF r.ok THEN "assign" ELSE "return"

\* The caller calls machine.dispatch(event); the event moves into the call.
DispatchEnter(event) ==
    /\ ~panicked
    /\ frame.pc = "idle"
    /\ Len(log[1]) < DispatchBound
    /\ frame' = [Idle EXCEPT !.pc = "apply", !.pre = machine[1].state, !.event = event]
    /\ UNCHANGED <<apply_impl, initial, machine, log, display, panicked>>

\* self.state.apply(event).map_err(|e| e.into())?
DispatchApply ==
    /\ frame.pc = "apply"
    /\ LET r == apply(machine[1].state, frame.event) IN
         frame' = [frame EXCEPT
                     !.pc = QuestionMark(r),
                     !.applied = IF @ < MaxApplied THEN @ + 1 ELSE @,
                     !.self = machine[1].state,
                     !.r = r,
                     !.ret = IF r.ok THEN @ ELSE Err(into(r.error))]
    /\ UNCHANGED <<apply_impl, initial, machine, log, display, panicked>>

\* self.state = <the value `?` let through>; then Ok(()) is the value returned.
DispatchAssign ==
    /\ frame.pc = "assign"
    /\ machine' = [machine EXCEPT ![1].state = frame.r.value]
    /\ frame' = [frame EXCEPT !.pc = "return", !.ret = Ok(Unit)]
    /\ UNCHANGED <<apply_impl, initial, log, display, panicked>>

\* dispatch returns; the caller has its result and reads machine.state.
DispatchReturn ==
    /\ frame.pc = "return"
    /\ log' = [log EXCEPT ![1] = Append(@,
                  [pre |-> frame.pre, event |-> frame.event,
                   result |-> frame.ret, post |-> machine[1].state])]
    /\ frame' = Idle
    /\ UNCHANGED <<apply_impl, initial, machine, display, panicked>>

NextSteps ==
    \/ \E event \in TurnstileEvent : DispatchEnter(event)
    \/ DispatchApply
    \/ DispatchAssign
    \/ DispatchReturn

\* The caller is free to stop calling; a call entered runs on, and apply is
\* taken to terminate.
SpecSteps ==
    /\ Init
    /\ [][NextSteps]_vars
    /\ WF_vars(DispatchApply)
    /\ WF_vars(DispatchAssign)
    /\ WF_vars(DispatchReturn)

-----------------------------------------------------------------------------
\* Helpers for the properties.

\* This step is a call of dispatch on machine m.
Dispatched(m) == Len(log'[m]) = Len(log[m]) + 1

\* The caller's record of the latest dispatch on machine m.
Last(m) == log[m][Len(log[m])]

\* The events dispatched to machine m so far.
Events(m) == [i \in 1..Len(log[m]) |-> log[m][i].event]

\* The accepted transitions folded over a sequence of events, rejected ones skipped.
RECURSIVE Fold(_, _)
Fold(s, evs) ==
    IF evs = <<>> THEN s
    ELSE LET r == apply(s, Head(evs)) IN
         Fold(IF r.ok THEN r.value ELSE s, Tail(evs))

-----------------------------------------------------------------------------
\* C1. No-mutation-on-error: whenever dispatch(e) is called on a machine whose
\* state is s and apply(s, e) rejects, the machine's state is still s afterwards.
NoMutationOnError ==
    [][\A m \in Machines :
         (Dispatched(m) /\ ~apply(machine[m].state, Last(m)'.event).ok)
            => machine'[m].state = machine[m].state]_vars

\* A rejected dispatch has happened on a machine whose state was Unlocked.
NoMutationOnErrorWitness ==
    \E m \in Machines :
        /\ log[m] # <<>>
        /\ Last(m).pre = "Unlocked"
        /\ ~apply(Last(m).pre, Last(m).event).ok
        /\ machine[m].state = "Unlocked"

\* C2. Mutation-on-success: whenever dispatch(e) is called on a machine whose
\* state is s and apply(s, e) succeeds with s', the call returns Ok(()) and the
\* machine's state is s' afterwards.
MutationOnSuccess ==
    [][\A m \in Machines :
         LET r == apply(machine[m].state, Last(m)'.event) IN
         (Dispatched(m) /\ r.ok)
            => (Last(m)'.result = Ok(Unit) /\ machine'[m].state = r.value)]_vars

\* An accepted dispatch has changed a machine's state.
MutationOnSuccessWitness ==
    \E m \in Machines :
        /\ log[m] # <<>>
        /\ apply(Last(m).pre, Last(m).event).ok
        /\ Last(m).result = Ok(Unit)
        /\ machine[m].state # Last(m).pre

\* C3. When apply rejects, dispatch returns exactly the error apply produced
\* (same variant, same state, same event); it returns no other error and never
\* turns a rejection into Ok.
ErrorSurfacedUnchanged ==
    [][\A m \in Machines :
         LET r == apply(machine[m].state, Last(m)'.event) IN
         Dispatched(m) =>
            /\ (~r.ok => Last(m)'.result = Err(r.error))
            /\ (~Last(m)'.result.ok =>
                   /\ ~r.ok
                   /\ Last(m)'.result.error \in MachineError
                   /\ Last(m)'.result.error.variant = "InvalidEvent")]_vars

\* A dispatch has returned an error that names neither the machine's state nor
\* the dispatched event, as apply produced it.
ErrorSurfacedUnchangedWitness ==
    \E m \in Machines :
        /\ log[m] # <<>>
        /\ ~Last(m).result.ok
        /\ Last(m).result.error = apply(Last(m).pre, Last(m).event).error
        /\ Last(m).result.error.state # Last(m).pre
        /\ Last(m).result.error.event # Last(m).event

\* C4. Recoverability: after one or more rejected dispatches in a row, dispatching
\* an event that apply accepts for the state the machine held before them (which
\* is still its state) returns Ok(()) and stores the state apply returned.
Recoverability ==
    \A m \in Machines : \A i, j \in 1..Len(log[m]) :
        LET r == apply(log[m][i].pre, log[m][j].event) IN
        (i < j /\ (\A k \in i..(j - 1) : ~log[m][k].result.ok) /\ r.ok)
           => /\ log[m][j].pre = log[m][i].pre
              /\ log[m][j].result = Ok(Unit)
              /\ log[m][j].post = r.value
              /\ (j = Len(log[m]) => machine[m].state = r.value)

\* Two dispatches in a row were rejected and the one after them was accepted and
\* changed the state.
RecoverabilityWitness ==
    \E m \in Machines :
        /\ Len(log[m]) = 3
        /\ ~log[m][1].result.ok
        /\ ~log[m][2].result.ok
        /\ log[m][3].result.ok
        /\ machine[m].state # log[m][1].pre

\* C5. After any sequence of dispatch calls from Machine::new(s0), each call left
\* the state either as it was (the call returned an error) or at the value apply
\* returned (the call returned Ok), each call started from the state the one
\* before it left, and the machine's state is the fold of the accepted
\* transitions over the events dispatched.
StateIsFoldOfAccepted ==
    \A m \in Machines :
        /\ machine[m].state = Fold(initial, Events(m))
        /\ \A i \in 1..Len(log[m]) :
              LET c == log[m][i] IN
              /\ c.pre = (IF i = 1 THEN initial ELSE log[m][i - 1].post)
              /\ c.post = (IF c.result.ok THEN apply(c.pre, c.event).value ELSE c.pre)
              /\ c.result.ok = apply(c.pre, c.event).ok
        /\ (log[m] # <<>> => machine[m].state = Last(m).post)

\* A machine has been through an accepted and a rejected dispatch and is no
\* longer in its initial state.
StateIsFoldOfAcceptedWitness ==
    \E m \in Machines :
        /\ \E i \in 1..Len(log[m]) : log[m][i].result.ok
        /\ \E i \in 1..Len(log[m]) : ~log[m][i].result.ok
        /\ machine[m].state # initial

NoPanic == ~panicked

\* C8. Turnstile: dispatch succeeds for exactly the pairs (Locked,
\* PaymentReceived), leaving Unlocked, and (Unlocked, PersonEntering), leaving
\* Locked; every other pair is rejected.
TurnstileRelation ==
    apply_impl = TurnstileTable =>
        \A m \in Machines : \A i \in 1..Len(log[m]) :
            LET c == log[m][i] IN
            /\ c.result.ok <=> \/ (c.pre = "Locked" /\ c.event = "PaymentReceived")
                               \/ (c.pre = "Unlocked" /\ c.event = "PersonEntering")
            /\ (c.result.ok /\ c.pre = "Locked") => c.post = "Unlocked"
            /\ (c.result.ok /\ c.pre = "Unlocked") => c.post = "Locked"
            /\ (i = Len(log[m]) => machine[m].state = c.post)

\* One turnstile machine has been given each of the four (state, event) pairs.
TurnstileRelationWitness ==
    /\ apply_impl = TurnstileTable
    /\ \E m \in Machines :
          \A s \in TurnstileState, e \in TurnstileEvent :
              \E i \in 1..Len(log[m]) : log[m][i].pre = s /\ log[m][i].event = e

\* C9. Turnstile: every rejected dispatch returns InvalidEvent(s, e) with s the
\* state the machine held when dispatch was called and e the event dispatched.
TurnstileRejectionLabelled ==
    apply_impl = TurnstileTable =>
        \A m \in Machines : \A i \in 1..Len(log[m]) :
            ~log[m][i].result.ok =>
                log[m][i].result = Err(InvalidEvent(log[m][i].pre, log[m][i].event))

\* A turnstile machine has rejected an event in each of its two states.
TurnstileRejectionLabelledWitness ==
    /\ apply_impl = TurnstileTable
    /\ \E m \in Machines :
          \A s \in TurnstileState :
              \E i \in 1..Len(log[m]) : log[m][i].pre = s /\ ~log[m][i].result.ok

\* C10. Construction: a machine that has not been dispatched to holds exactly
\* the value given to Machine::new, whatever that value is.
ConstructionKeepsInitialState ==
    \A m \in Machines : log[m] = <<>> => machine[m].state = initial

\* A machine was created in the state that is not the first variant, and still
\* holds it after the other machine has been dispatched to.
ConstructionKeepsInitialStateWitness ==
    /\ initial = "Unlocked"
    /\ log[1] # <<>>
    /\ log[2] = <<>>
    /\ machine[2].state = "Unlocked"

\* C11. Turnstile example scenario: from Locked, the events PersonEntering,
\* PaymentReceived, PersonEntering, PaymentReceived, PaymentReceived give the
\* results Err(InvalidEvent(Locked, PersonEntering)), Ok, Ok, Ok,
\* Err(InvalidEvent(Unlocked, PaymentReceived)) and leave the state Locked,
\* Unlocked, Locked, Unlocked, Unlocked after the respective call.
ScenarioEvents ==
    <<"PersonEntering", "PaymentReceived", "PersonEntering",
      "PaymentReceived", "PaymentReceived">>
ScenarioResults ==
    <<Err(InvalidEvent("Locked", "PersonEntering")), Ok(Unit), Ok(Unit), Ok(Unit),
      Err(InvalidEvent("Unlocked", "PaymentReceived"))>>
ScenarioStates == <<"Locked", "Unlocked", "Locked", "Unlocked", "Unlocked">>

\* The first i dispatches on machine m were the first i events of the scenario.
FollowsScenario(m, i) ==
    /\ i <= Len(ScenarioEvents)
    /\ \A j \in 1..i : log[m][j].event = ScenarioEvents[j]

TurnstileScenario ==
    (apply_impl = TurnstileTable /\ initial = "Locked") =>
        \A m \in Machines : \A i \in 1..Len(log[m]) :
            FollowsScenario(m, i) =>
                /\ log[m][i].result = ScenarioResults[i]
                /\ log[m][i].post = ScenarioStates[i]
                /\ (i = Len(log[m]) => machine[m].state = ScenarioStates[i])

\* Both turnstile machines have been through the whole scenario.
TurnstileScenarioWitness ==
    /\ apply_impl = TurnstileTable
    /\ initial = "Locked"
    /\ \A m \in Machines :
          Len(log[m]) = Len(ScenarioEvents) /\ FollowsScenario(m, Len(ScenarioEvents))

\* The calls on machine m, among the first i, that returned Ok for event e.
Accepted(m, e, i) == {j \in 1..i : log[m][j].result.ok /\ log[m][j].event = e}

\* C14. Turnstile ordering: from Locked, the successful dispatches alternate
\* PaymentReceived, PersonEntering, PaymentReceived, ...; the successful
\* PersonEntering never outnumber the successful PaymentReceived, and the
\* difference is 0 exactly when the state is Locked and 1 exactly when Unlocked.
TurnstileAlternation ==
    (apply_impl = TurnstileTable /\ initial = "Locked") =>
        \A m \in Machines :
            LET n == Len(log[m])
                paid(i) == Cardinality(Accepted(m, "PaymentReceived", i))
                entered(i) == Cardinality(Accepted(m, "PersonEntering", i))
            IN
            /\ entered(n) <= paid(n)
            /\ (paid(n) - entered(n) = 0) <=> (machine[m].state = "Locked")
            /\ (paid(n) - entered(n) = 1) <=> (machine[m].state = "Unlocked")
            /\ \A i \in 1..n :
                  log[m][i].result.ok =>
                     (log[m][i].event = "PaymentReceived"
                         <=> paid(i - 1) = entered(i - 1))

\* A turnstile started Locked has taken two payments and let two persons in,
\* and has rejected an event in between.
TurnstileAlternationWitness ==
    /\ apply_impl = TurnstileTable
    /\ initial = "Locked"
    /\ \E m \in Machines :
          /\ Cardinality(Accepted(m, "PaymentReceived", Len(log[m]))) = 2
          /\ Cardinality(Accepted(m, "PersonEntering", Len(log[m]))) = 2
          /\ \E i \in 1..Len(log[m]) : ~log[m][i].result.ok
          /\ machine[m].state = "Locked"

\* C15. Turnstile never stuck: in every reachable state exactly one of the two
\* events is accepted and the other rejected; dispatching the accepted one
\* reaches the other state and dispatching the rejected one stays, so both
\* Locked and Unlocked can be reached from every reachable state.
TurnstileNeverStuck ==
    apply_impl = TurnstileTable =>
        \A m \in Machines :
            LET out(e) == MachineDispatch(machine[m], e) IN
            /\ Cardinality({e \in TurnstileEvent : out(e).result.ok}) = 1
            /\ Cardinality({e \in TurnstileEvent : ~out(e).result.ok}) = 1
            /\ \A e \in TurnstileEvent :
                  /\ out(e).result.ok => out(e).machine.state # machine[m].state
                  /\ ~out(e).result.ok => out(e).machine.state = machine[m].state
            /\ {out(e).machine.state : e \in TurnstileEvent} = TurnstileState

\* A turnstile has been rejected twice in a row, has then moved to the other
\* state and has come back to the first.
TurnstileNeverStuckWitness ==
    /\ apply_impl = TurnstileTable
    /\ \E m \in Machines :
          /\ Len(log[m]) = 4
          /\ ~log[m][1].result.ok
          /\ ~log[m][2].result.ok
          /\ log[m][3].result.ok
          /\ log[m][4].result.ok
          /\ machine[m].state = log[m][1].pre

\* C16. Turnstile: dispatch returns Ok(()) if and only if the state after the
\* call differs from the state before it; and after a rejected dispatch the
\* state named by the returned InvalidEvent is the machine's state after the call.
TurnstileResultReflectsChange ==
    apply_impl = TurnstileTable =>
        \A m \in Machines : \A i \in 1..Len(log[m]) :
            LET c == log[m][i] IN
            /\ (c.result = Ok(Unit)) <=> (c.post # c.pre)
            /\ ~c.result.ok => c.result.error.state = c.post
            /\ (i = Len(log[m]) => machine[m].state = c.post)

\* A turnstile has returned Ok with a changed state and an error naming the
\* state it then held, which was not its initial state.
TurnstileResultReflectsChangeWitness ==
    /\ apply_impl = TurnstileTable
    /\ \E m \in Machines :
          /\ Len(log[m]) >= 2
          /\ \E i \in 1..Len(log[m]) : log[m][i].result.ok /\ log[m][i].post # log[m][i].pre
          /\ ~Last(m).result.ok
          /\ Last(m).result.error.state = machine[m].state
          /\ machine[m].state # initial

-----------------------------------------------------------------------------
\* Properties of dispatch followed statement by statement (SpecSteps).

\* A call followed statement by statement returns what Machine::dispatch as a
\* whole gives for the state and event it was entered with.
StepsAgreeWithDispatch ==
    [][(frame.pc = "return" /\ frame'.pc = "idle") =>
          LET d == MachineDispatch([machine[1] EXCEPT !.state = frame.pre], frame.event) IN
          /\ Last(1)'.result = d.result
          /\ Last(1)'.post = d.machine.state
          /\ machine'[1] = d.machine]_vars

\* C12. Each call of dispatch invokes apply exactly once, on the machine's
\* current state and the given event; the call changes nothing but the state
\* field, and that only by the assignment of the value apply succeeded with.
ApplyOnceAndStateOnly ==
    /\ [](/\ frame.applied <= 1
          /\ frame.pc \in {"assign", "return"} =>
                /\ frame.applied = 1
                /\ frame.self = frame.pre
                /\ frame.r = apply(frame.pre, frame.event))
    /\ [][frame.pc # "idle" =>
            /\ UNCHANGED <<apply_impl, initial, display, panicked>>
            /\ machine'[2] = machine[2]
            /\ machine'[1]._event = machine[1]._event
            /\ log'[2] = log[2]
            /\ (log'[1] # log[1] => frame.pc = "return")
            /\ (machine'[1].state # machine[1].state =>
                   /\ frame.pc = "assign"
                   /\ apply(frame.pre, frame.event).ok
                   /\ machine'[1].state = apply(frame.pre, frame.event).value)
            /\ (frame'.pc = "idle" =>
                   /\ Last(1)'.event = frame.event
                   /\ (~apply(frame.pre, frame.event).ok => machine'[1].state = frame.pre))]_vars

\* A call is about to return: apply ran once and the state has changed.
ApplyOnceAndStateOnlyWitness ==
    /\ frame.pc = "return"
    /\ frame.applied = 1
    /\ frame.r.ok
    /\ machine[1].state # frame.pre

\* C13. Every call of dispatch completes, given that apply terminates: a call
\* entered always has a next statement to run (it never blocks), it returns, and
\* what it returns is exactly one of Ok(()) and Err(InvalidEvent(..)).
DispatchCompletes ==
    /\ (frame.pc # "idle") ~> (frame.pc = "idle")
    /\ [](frame.pc # "idle" =>
             ENABLED <<DispatchApply \/ DispatchAssign \/ DispatchReturn>>_vars)
    /\ [](\A i \in 1..Len(log[1]) :
             LET res == log[1][i].result IN
             \/ res = Ok(Unit)
             \/ \E err \in MachineError : res = Err(err))

\* Three calls on the turnstile have returned, the first two with an error and
\* the third with Ok, and no call is in progress.
DispatchCompletesWitness ==
    /\ apply_impl = TurnstileTable
    /\ frame.pc = "idle"
    /\ Len(log[1]) = 3
    /\ ~log[1][1].result.ok
    /\ ~log[1][2].result.ok
    /\ log[1][3].result.ok
====
